---- MODULE Spec2Model ----
(***************************************************************************)
(* The cooperative task scheduler, the HTTP request pipeline and the       *)
(* paginated fetch of wee-slack (src/slack.py, src/slack/slack_api.py).    *)
(*                                                                         *)
(* Spec      the trampoline scheduler: create_task, task_runner,           *)
(*           weechat_task_cb, sleep and hook_process_hashtable, driven by  *)
(*           arbitrary coroutines and by the host's callbacks.             *)
(* SpecHttp  one http_request: spawns, transport retries, rate-limit       *)
(*           waits and the classification of the response.                 *)
(* SpecFetch fetch_list and _fetch_list over the pages an API serves,      *)
(*           called once or twice, with the caller's or default params.    *)
(* SpecLive  the scheduler under a fair host, without failing coroutines.  *)
(***************************************************************************)
EXTENDS Integers, Sequences, FiniteSets, TLC

\* ------------------------------------------------------------------------
\* Bounds of the model
\* ------------------------------------------------------------------------
MaxIds == 4        \* Future/Task identities ever allocated (uuid4 calls)
MaxChunks == 1     \* intermediate (return code -1) callbacks per process
MaxHeaders == 2    \* header lines of a response after its status line
MaxBudget == 2     \* largest max_retries an http_request is called with
MaxLimits == 1     \* rate-limit waits per request
MaxPages == 3      \* pages the API serves for one list
MaxLiveIds == 3    \* identities handed out in the liveness specification

\* ------------------------------------------------------------------------
\* Program constants
\* ------------------------------------------------------------------------
FdThreshold == 10       \* hook_process_hashtable: headroom needed to spawn
FdPollMs == 10          \* hook_process_hashtable: sleep between samples
RetrySleepMs == 1000    \* http_request: wait before a retry
DefaultMaxRetries == 5  \* http_request: max_retries when not passed

\* what available_file_descriptors() may return: the two sides of the test
\* "available_file_descriptors() < 10"
FdSamples == {FdThreshold - 1, FdThreshold}

VARIABLES
  nextId,            \* the next identity uuid4 hands out
  task,              \* Task objects: id -> [final, st, at, got, src, ph, pf,
                     \*   fds, stdout, stderr, return_code]
  active_tasks,      \* pending-by-future-id: future id -> parked Task
  active_responses,  \* completed-but-uncollected: Task id -> result
  stack,             \* nested task_runner invocations: the Task each one is running
  hooks,             \* live host hooks: future id -> [kind, ms, sent]
  fault              \* the error the last step raised to the host: [e, id]

svars == <<nextId, task, active_tasks, active_responses, stack, hooks, fault>>

VARIABLES
  h_pc,        \* where the http_request coroutine stands
  h_first,     \* the arguments of the outermost http_request call
  h_args,      \* the arguments of the current (innermost) http_request call
  h_chunks,    \* intermediate callbacks delivered for the running process
  h_stdout,    \* hook_process_hashtable: stdout, the chunks received so far
  h_stderr,    \* hook_process_hashtable: stderr, the chunks received so far
  h_last,      \* http_request: return_code, out, err of the last process
  h_log,       \* http_request's spawns, sleeps and classified responses
  h_result,    \* what the outermost http_request returned or raised
  h_limits     \* rate-limit waits so far

hvars == <<h_pc, h_first, h_args, h_chunks, h_stdout, h_stderr, h_last,
           h_log, h_result, h_limits>>

VARIABLES
  f_pc,        \* "call" before the paginated fetch, "done" after it,
               \* "again" after a second call of the same function
  f_fn,        \* which function ran: "fetch_list" or "_fetch_list"
  f_server,    \* the pages the API serves, in cursor order
  f_pages,     \* the pages argument
  f_params,    \* the caller's params mapping
  f_default,   \* the mapping that is the default value of params
  f_how,       \* the params of the last call: "own" (the caller's) or "default"
  f_calls,     \* the params of every fetch call made, in order
  f_result     \* what the paginated fetch returned or raised

fvars == <<f_pc, f_fn, f_server, f_pages, f_params, f_default, f_how,
           f_calls, f_result>>

nonsched == <<hvars, fvars>>
nonhttp == <<svars, fvars>>
nonfetch == <<svars, hvars>>

vars == <<svars, hvars, fvars>>

\* ------------------------------------------------------------------------
\* Values sent into a coroutine
\* ------------------------------------------------------------------------
NoneVal == [k |-> "None", id |-> 0, rc |-> 0, n |-> 0]
\* args of a hook_timer callback for future i (remaining_calls = 0)
TimerArgs(i) == [k |-> "timer", id |-> i, rc |-> 0, n |-> 0]
\* args of a hook_process callback for future i: return code rc, n-th chunk
ProcessArgs(i, rc, n) == [k |-> "process", id |-> i, rc |-> rc, n |-> n]
\* the value a Task's coroutine returns (e.value of its StopIteration)
ResultOf(t) == [k |-> "result", id |-> t, rc |-> 0, n |-> 0]

\* out and err of a hook_process callback: the text the process of future
\* id wrote to stdout and to stderr before its n-th callback
OutOf(args) == <<"out", args.id, args.n>>
ErrOf(args) == <<"err", args.id, args.n>>

NoFault == [e |-> "none", id |-> 0]

Remove(f, x) == [y \in DOMAIN f \ {x} |-> f[y]]
Put(f, x, v) == [y \in DOMAIN f \cup {x} |-> IF y = x THEN v ELSE f[y]]
Top == stack[Len(stack)]
Front(s) == SubSeq(s, 1, Len(s) - 1)
Below == {stack[j] : j \in 1..(Len(stack) - 1)}

\* Task.__init__ : a new Task about to be run by create_task
NewTask(final) ==
  [final |-> final, st |-> "running", at |-> 0, got |-> NoneVal, src |-> 0,
   ph |-> "none", pf |-> 0, fds |-> 0, stdout |-> <<>>, stderr |-> <<>>,
   return_code |-> -1]

\* ------------------------------------------------------------------------
\* http_request: the text a process writes, line by line
\* ------------------------------------------------------------------------
\* "HTTP/1.1 <code> <reason>"
StatusLine(code) == [t |-> "status", code |-> code, name |-> "", int |-> FALSE, v |-> 0]
\* "<name>: <value>"; int says whether int(value.strip()) succeeds, with v
HeaderLine(name, int, v) == [t |-> "header", code |-> 0, name |-> name, int |-> int, v |-> v]
\* a header line without a colon
NoColonLine == [t |-> "nocolon", code |-> 0, name |-> "", int |-> FALSE, v |-> 0]
\* the empty line that ends the header block ("\r\n\r\n")
BlankLine == [t |-> "blank", code |-> 0, name |-> "", int |-> FALSE, v |-> 0]
\* a line of the body
BodyLine(v) == [t |-> "body", code |-> 0, name |-> "", int |-> FALSE, v |-> v]
\* a piece of the low-level error stream
ErrLine == [t |-> "stderr", code |-> 0, name |-> "", int |-> FALSE, v |-> 0]

\* str.lower() on the header names of the model
Lower(name) ==
  CASE name = "Retry-After" -> "retry-after"
    [] name = "retry-after" -> "retry-after"
    [] name = "Content-Type" -> "content-type"
    [] OTHER -> name

\* the header lines a response may carry after its status line
HeaderLines ==
  { HeaderLine("Retry-After", TRUE, 3),
    HeaderLine("retry-after", FALSE, 0),
    HeaderLine("Content-Type", FALSE, 0),
    NoColonLine }

HeaderBlocks ==
  UNION { [1..n -> HeaderLines] : n \in 0..MaxHeaders }

Statuses == {200, 404}

\* what a process can write to stdout: 429 responses with every header
\* block, other responses (their headers are not read), a response whose
\* body holds an empty line, and outputs http_request cannot parse
Outs ==
  { <<StatusLine(429)>> \o h \o <<BlankLine, BodyLine(429)>> : h \in HeaderBlocks }
  \cup { <<StatusLine(c), BlankLine, BodyLine(c)>> : c \in Statuses }
  \cup { <<StatusLine(c), HeaderLine("Content-Type", FALSE, 0), BlankLine, BodyLine(c)>> :
           c \in Statuses }
  \cup { <<StatusLine(200), BlankLine, BodyLine(1), BlankLine, BodyLine(2)>>,
         <<StatusLine(200), HeaderLine("Content-Type", FALSE, 0)>>,
         <<BlankLine, BodyLine(1)>> }

\* what a process can have produced when it ends: a host-level failure
\* (return code not 0, or text on stderr) or a complete output
Plans ==
  { [rc |-> 1, out |-> <<>>, err |-> <<>>],
    [rc |-> 1, out |-> <<>>, err |-> <<ErrLine>>],
    [rc |-> 0, out |-> <<>>, err |-> <<ErrLine>>] }
  \cup { [rc |-> 0, out |-> o, err |-> <<>>] : o \in Outs }

NoPlan == [rc |-> -1, out |-> <<>>, err |-> <<>>]

\* the arguments of an http_request call
Args(url, options, timeout, max_retries) ==
  [url |-> url, options |-> options, timeout |-> timeout, max_retries |-> max_retries]

NoArgs == Args("", <<>>, 0, 0)

\* HttpError(url, return_code, http_status, error), a returned body, or
\* another exception raised while parsing
HttpError(url, return_code, http_status, error) ==
  [kind |-> "HttpError", url |-> url, return_code |-> return_code,
   http_status |-> http_status, text |-> error]
Body(text) ==
  [kind |-> "body", url |-> "", return_code |-> 0, http_status |-> 0, text |-> text]
OtherError(kind) ==
  [kind |-> kind, url |-> "", return_code |-> 0, http_status |-> 0, text |-> <<>>]
NoResult == OtherError("none")

\* entries of h_log
SpawnEvent(a) == [e |-> "spawn", ms |-> 0, why |-> "", args |-> a]
SleepEvent(ms, why) == [e |-> "sleep", ms |-> ms, why |-> why, args |-> NoArgs]
ResponseEvent(why) == [e |-> "response", ms |-> 0, why |-> why, args |-> NoArgs]

\* out.index("\r\n\r\n"): the position of the first empty line, 0 if none
HeadersEndIndex(out) ==
  IF \E i \in 1..Len(out) : out[i].t = "blank"
  THEN CHOOSE i \in 1..Len(out) :
         /\ out[i].t = "blank"
         /\ \A j \in 1..(i - 1) : out[j].t # "blank"
  ELSE 0

\* http_request, the loop over headers[1:] of a 429 response, from line i:
\* the first Retry-After header decides; a line without a colon or a value
\* that is no integer raises ValueError
RECURSIVE ScanRetryAfter(_, _)
ScanRetryAfter(headers, i) ==
  IF i > Len(headers) THEN [k |-> "absent", secs |-> 0]
  ELSE IF headers[i].t # "header" THEN [k |-> "ValueError", secs |-> 0]
  ELSE IF Lower(headers[i].name) = "retry-after"
       THEN IF headers[i].int
            THEN [k |-> "retry", secs |-> headers[i].v]
            ELSE [k |-> "ValueError", secs |-> 0]
       ELSE ScanRetryAfter(headers, i + 1)

\* what http_request does with the outcome of a process
Outcome(next, ms, why, result) ==
  [next |-> next, ms |-> ms, why |-> why, result |-> result]

\* Classify with HTTP status faults retried like host-level failures
Classify_RetryHttpErrors(a, return_code, out, err) ==
  IF return_code # 0 \/ err # <<>>
     \/ (HeadersEndIndex(out) > 1 /\ out[1].t = "status" /\ out[1].code >= 400)
  THEN IF a.max_retries > 0
       THEN Outcome("backoff", RetrySleepMs, "failure", NoResult)
       ELSE Outcome("raised", 0, "failure", HttpError(a.url, return_code, 0, err))
  ELSE Outcome("returned", 0, "ok",
               Body(SubSeq(out, HeadersEndIndex(out) + 1, Len(out))))

\* Classify with every 429 response waiting, 1 second when no Retry-After
\* header says how long
Classify_AlwaysWaitOn429(a, return_code, out, err) ==
  IF return_code # 0 \/ err # <<>>
  THEN IF a.max_retries > 0
       THEN Outcome("backoff", RetrySleepMs, "failure", NoResult)
       ELSE Outcome("raised", 0, "failure", HttpError(a.url, return_code, 0, err))
  ELSE LET end == HeadersEndIndex(out)
           headers == SubSeq(out, 1, end - 1)
           body == SubSeq(out, end + 1, Len(out)) IN
       IF end = 0 \/ headers = <<>> \/ headers[1].t # "status"
       THEN Outcome("raised", 0, "unparsed", OtherError("ValueError"))
       ELSE IF headers[1].code = 429
       THEN Outcome("ratelimit", 1000, "ratelimit", NoResult)
       ELSE IF headers[1].code >= 400
       THEN Outcome("raised", 0, "status", HttpError(a.url, return_code, headers[1].code, body))
       ELSE Outcome("returned", 0, "ok", Body(body))

\* http_request after hook_process_hashtable has returned
\* (command, return_code, out, err)
Classify(a, return_code, out, err) ==
  IF return_code # 0 \/ err # <<>>
  THEN IF a.max_retries > 0
       THEN Outcome("backoff", RetrySleepMs, "failure", NoResult)
       ELSE Outcome("raised", 0, "failure", HttpError(a.url, return_code, 0, err))
  ELSE LET end == HeadersEndIndex(out)
           headers == SubSeq(out, 1, end - 1)
           body == SubSeq(out, end + 1, Len(out)) IN
       IF end = 0
       THEN Outcome("raised", 0, "unparsed", OtherError("ValueError"))
       ELSE IF headers = <<>> \/ headers[1].t # "status"
       THEN Outcome("raised", 0, "unparsed", OtherError("IndexError"))
       ELSE LET http_status == headers[1].code
                scan == IF http_status = 429
                        THEN ScanRetryAfter(headers, 2)
                        ELSE [k |-> "absent", secs |-> 0] IN
            IF scan.k = "retry"
            THEN Outcome("ratelimit", scan.secs * 1000, "ratelimit", NoResult)
            ELSE IF scan.k = "ValueError"
            THEN Outcome("raised", 0, "unparsed", OtherError("ValueError"))
            ELSE IF http_status >= 400
            THEN Outcome("raised", 0, "status",
                         HttpError(a.url, return_code, http_status, body))
            ELSE Outcome("returned", 0, "ok", Body(body))

\* the retry after a host-level failure, with the budget left as it is
RetryArgs_SameBudget(a) == a

\* http_request(url, options, timeout, max_retries - 1)
RetryArgs(a) == [a EXCEPT !.max_retries = @ - 1]

\* http_request(url, options, timeout): max_retries is not passed
RateLimitArgs(a) == [a EXCEPT !.max_retries = DefaultMaxRetries]

\* ------------------------------------------------------------------------
\* fetch_list: JSON mappings and the API's pages
\* ------------------------------------------------------------------------
\* None, and the empty string, among cursors (cursors are numbered from 1)
PyNone == -1
EmptyStr == 0

\* dict.get(key, default)
Get(d, key, default) == IF key \in DOMAIN d THEN d[key] ELSE default

\* the truth value of a cursor in "pages != 1 and next_cursor and ..."
Truthy(c) == c # PyNone /\ c # EmptyStr

\* the list_key every call of the model passes
list_key == "channels"

\* the i-th page the API serves: "ok", the list field (n elements, unless
\* n < 0: no such field) and response_metadata, which is absent ("absent"),
\* holds next_cursor "" ("empty") or the cursor of page i + 1 ("cursor")
Page(i, ok, meta, n) ==
  LET a == [ok |-> ok, page |-> i]
      b == IF n >= 0 THEN Put(a, list_key, [j \in 1..n |-> <<i, j>>]) ELSE a
  IN  CASE meta = "absent" -> b
        [] meta = "empty" -> Put(b, "response_metadata", [next_cursor |-> EmptyStr])
        [] meta = "cursor" -> Put(b, "response_metadata", [next_cursor |-> i])

\* a page after which fetch_list goes on when pages allows it
Continues(r) ==
  /\ Truthy(Get(Get(r, "response_metadata", <<>>), "next_cursor", PyNone))
  /\ r.ok

\* the pages the API may serve as page i: ok pages carry the list field
PagesAt(i) ==
  { Page(i, TRUE, m, n) : m \in {"absent", "empty", "cursor"}, n \in 1..2 }
  \cup { Page(i, FALSE, m, n) : m \in {"absent", "cursor"}, n \in {-1, 1} }

\* the API's answers to one list: the last page does not continue
RECURSIVE PageSeqs(_)
PageSeqs(n) ==
  IF n = 0 THEN { <<>> }
  ELSE { Append(sv, r) : sv \in PageSeqs(n - 1), r \in PagesAt(n) }

Servers ==
  UNION { { sv \in PageSeqs(n) : ~Continues(sv[n]) } : n \in 1..MaxPages }

\* SlackApi.fetch / SlackApi._fetch against the server sv: the first page
\* without a cursor in params, else the page the cursor names
Fetch(sv, params) ==
  IF "cursor" \in DOMAIN params THEN sv[params["cursor"] + 1] ELSE sv[1]

\* what a paginated fetch gives back: the response returned or the exception
\* raised, the params of the calls made, and the caller's params afterwards
Fetched(kind, response, calls, params) ==
  [kind |-> kind, response |-> response, calls |-> calls, params |-> params]

\* Extend taking "ok" from the pages that follow as well: a failure of a
\* later page shows in the result
Extend_ShowsLaterFailure(response, sub, calls, params) ==
  IF sub.kind # "value"
  THEN Fetched(sub.kind, <<>>, calls, params)
  ELSE IF list_key \notin DOMAIN response \/ list_key \notin DOMAIN sub.response
  THEN Fetched("KeyError", <<>>, calls, params)
  ELSE Fetched("value",
               [response EXCEPT ![list_key] = @ \o sub.response[list_key],
                                !.ok = @ /\ sub.response.ok],
               calls, params)

\* response[list_key].extend(next_pages[list_key]); return response
Extend(response, sub, calls, params) ==
  IF sub.kind # "value"
  THEN Fetched(sub.kind, <<>>, calls, params)
  ELSE IF list_key \notin DOMAIN response \/ list_key \notin DOMAIN sub.response
  THEN Fetched("KeyError", <<>>, calls, params)
  ELSE Fetched("value",
               [response EXCEPT ![list_key] = @ \o sub.response[list_key]],
               calls, params)

\* fetch_list returning what the recursive call returned
RECURSIVE fetch_list_ReturnsNextPages(_, _, _)
fetch_list_ReturnsNextPages(sv, params, pages) ==
  LET response == Fetch(sv, params)
      next_cursor == Get(Get(response, "response_metadata", <<>>), "next_cursor", PyNone)
  IN  IF pages # 1 /\ Truthy(next_cursor) /\ response.ok
      THEN LET sub == fetch_list_ReturnsNextPages(sv, Put(params, "cursor", next_cursor), pages - 1)
           IN  Fetched(sub.kind, sub.response, <<params>> \o sub.calls, sub.params)
      ELSE Fetched("value", response, <<params>>, params)

\* fetch_list going on only while pages > 1
RECURSIVE fetch_list_StopsAtZero(_, _, _)
fetch_list_StopsAtZero(sv, params, pages) ==
  LET response == Fetch(sv, params)
      next_cursor == Get(Get(response, "response_metadata", <<>>), "next_cursor", PyNone)
  IN  IF pages > 1 /\ Truthy(next_cursor) /\ response.ok
      THEN LET sub == fetch_list_StopsAtZero(sv, Put(params, "cursor", next_cursor), pages - 1)
           IN  Extend(response, sub, <<params>> \o sub.calls, sub.params)
      ELSE Fetched("value", response, <<params>>, params)

\* SlackApi.fetch_list (src/slack.py): params["cursor"] = next_cursor changes
\* the caller's mapping, which is passed on
RECURSIVE fetch_list(_, _, _)
fetch_list(sv, params, pages) ==
  LET response == Fetch(sv, params)
      next_cursor == Get(Get(response, "response_metadata", <<>>), "next_cursor", PyNone)
  IN  IF pages # 1 /\ Truthy(next_cursor) /\ response.ok
      THEN LET sub == fetch_list(sv, Put(params, "cursor", next_cursor), pages - 1)
           IN  Extend(response, sub, <<params>> \o sub.calls, sub.params)
      ELSE Fetched("value", response, <<params>>, params)

\* _fetch_list storing the cursor in the mapping it was passed, which the
\* next call then gets
RECURSIVE fetch_list_api_StoresCursor(_, _, _)
fetch_list_api_StoresCursor(sv, params, pages) ==
  LET response == Fetch(sv, params)
      next_cursor == Get(Get(response, "response_metadata", <<>>), "next_cursor", PyNone)
  IN  IF pages # 1 /\ Truthy(next_cursor) /\ response.ok
      THEN LET sub == fetch_list_api_StoresCursor(sv, Put(params, "cursor", next_cursor), pages - 1)
           IN  Extend(response, sub, <<params>> \o sub.calls, sub.params)
      ELSE Fetched("value", response, <<params>>, params)

\* SlackApi._fetch_list (src/slack/slack_api.py): the next call gets
\* new_params = {**params, "cursor": next_cursor}
RECURSIVE fetch_list_api(_, _, _)
fetch_list_api(sv, params, pages) ==
  LET response == Fetch(sv, params)
      next_cursor == Get(Get(response, "response_metadata", <<>>), "next_cursor", PyNone)
  IN  IF pages # 1 /\ Truthy(next_cursor) /\ response.ok
      THEN LET new_params == Put(params, "cursor", next_cursor)
               sub == fetch_list_api(sv, new_params, pages - 1)
           IN  Extend(response, sub, <<params>> \o sub.calls, params)
      ELSE Fetched("value", response, <<params>>, params)

\* no paginated fetch is set up
FetchIdle ==
  /\ f_pc = "idle"
  /\ f_fn = ""
  /\ f_server = <<>>
  /\ f_pages = 0
  /\ f_params = <<>>
  /\ f_default = <<>>
  /\ f_how = ""
  /\ f_calls = <<>>
  /\ f_result = Fetched("none", <<>>, <<>>, <<>>)

\* no http_request is running
HttpIdle ==
  /\ h_pc = "idle"
  /\ h_first = NoArgs
  /\ h_args = NoArgs
  /\ h_chunks = 0
  /\ h_stdout = <<>>
  /\ h_stderr = <<>>
  /\ h_last = NoPlan
  /\ h_log = <<>>
  /\ h_result = NoResult
  /\ h_limits = 0

\* the scheduler before any Task is created
SchedulerIdle ==
  /\ nextId = 1
  /\ task = <<>>
  /\ active_tasks = <<>>
  /\ active_responses = <<>>
  /\ stack = <<>>
  /\ hooks = <<>>
  /\ fault = NoFault

\* the coroutine of a Task record suspends at an await on future f.  Outside
\* hook_process_hashtable the frame of an earlier call of it is gone, and what
\* the call returned is kept no longer than to this suspension.
Park(r, f) ==
  IF r.ph = "none"
  THEN [NewTask(r.final) EXCEPT !.st = "parked", !.at = f]
  ELSE [r EXCEPT !.st = "parked", !.at = f, !.got = NoneVal, !.src = 0]

\* the coroutine of a Task record ends (st is "done" or "failed"): its frame
\* and local variables are gone; task.final is read when the coroutine
\* returns and never for one that raised
End(r, st) == [NewTask(r.final /\ st = "done") EXCEPT !.st = st]

\* a value v, produced for future f, is sent into the coroutine of a record
Resume(r, f, v) == [r EXCEPT !.st = "running", !.at = 0, !.got = v, !.src = f]

Init ==
  /\ SchedulerIdle
  /\ HttpIdle
  /\ FetchIdle

\* ------------------------------------------------------------------------
\* task_runner
\* ------------------------------------------------------------------------
\* The task_runner invocation on top of the stack returns (break): control
\* goes back to its caller, the coroutine that called create_task, or the host.
ReturnToCaller(tk) ==
  IF Len(stack) > 1
  THEN [tk EXCEPT ![stack[Len(stack) - 1]].st = "running"]
  ELSE tk

\* An exception leaves the task_runner on top of the stack: it propagates
\* through create_task into every calling coroutine (none catches it) and
\* reaches the host.
Propagate(tk) ==
  [u \in DOMAIN tk |-> IF u \in Below THEN End(tk[u], "failed") ELSE tk[u]]

\* RunnerOnYield without the lookup in active_responses: the coroutine is
\* parked although the awaited result is already there
RunnerOnYield_NoStashLookup(tk, t, f) ==
  IF f \in DOMAIN active_tasks
  THEN /\ task' = Propagate([tk EXCEPT ![t] = Park(@, f)])
       /\ stack' = <<>>
       /\ fault' = [e |-> "Exception:future.id in active_tasks", id |-> f]
       /\ UNCHANGED <<active_tasks, active_responses>>
  ELSE /\ active_tasks' = Put(active_tasks, f, t)
       /\ task' = ReturnToCaller([tk EXCEPT ![t] = Park(@, f)])
       /\ stack' = Front(stack)
       /\ fault' = NoFault
       /\ UNCHANGED active_responses

\* RunnerOnYield reading active_responses[future.id] without popping it
RunnerOnYield_KeepsStash(tk, t, f) ==
  IF f \in DOMAIN active_responses
  THEN /\ task' = [tk EXCEPT ![t] = Resume(@, f, active_responses[f])]
       /\ fault' = NoFault
       /\ UNCHANGED <<active_tasks, active_responses, stack>>
  ELSE IF f \in DOMAIN active_tasks
  THEN /\ task' = Propagate([tk EXCEPT ![t] = Park(@, f)])
       /\ stack' = <<>>
       /\ fault' = [e |-> "Exception:future.id in active_tasks", id |-> f]
       /\ UNCHANGED <<active_tasks, active_responses>>
  ELSE /\ active_tasks' = Put(active_tasks, f, t)
       /\ task' = ReturnToCaller([tk EXCEPT ![t] = Park(@, f)])
       /\ stack' = Front(stack)
       /\ fault' = NoFault
       /\ UNCHANGED active_responses

\* RunnerOnYield without the test "future.id in active_tasks": the entry is
\* assigned whatever it held.
RunnerOnYield_Overwrites(tk, t, f) ==
  IF f \in DOMAIN active_responses
  THEN /\ active_responses' = Remove(active_responses, f)
       /\ task' = [tk EXCEPT ![t] = Resume(@, f, active_responses[f])]
       /\ fault' = NoFault
       /\ UNCHANGED <<active_tasks, stack>>
  ELSE /\ active_tasks' = Put(active_tasks, f, t)
       /\ task' = ReturnToCaller([tk EXCEPT ![t] = Park(@, f)])
       /\ stack' = Front(stack)
       /\ fault' = NoFault
       /\ UNCHANGED active_responses

\* task_runner, try branch: the coroutine of Task t has yielded future f.
\* tk is the Task table after the coroutine's own step.
RunnerOnYield(tk, t, f) ==
  IF f \in DOMAIN active_responses
  THEN /\ active_responses' = Remove(active_responses, f)
       /\ task' = [tk EXCEPT ![t] = Resume(@, f, active_responses[f])]
       /\ fault' = NoFault
       /\ UNCHANGED <<active_tasks, stack>>
  ELSE IF f \in DOMAIN active_tasks
  THEN /\ task' = Propagate([tk EXCEPT ![t] = Park(@, f)])
       /\ stack' = <<>>
       /\ fault' = [e |-> "Exception:future.id in active_tasks", id |-> f]
       /\ UNCHANGED <<active_tasks, active_responses>>
  ELSE /\ active_tasks' = Put(active_tasks, f, t)
       /\ task' = ReturnToCaller([tk EXCEPT ![t] = Park(@, f)])
       /\ stack' = Front(stack)
       /\ fault' = NoFault
       /\ UNCHANGED active_responses

\* RunnerOnStop without the lookup of a Task parked on task.id: the result
\* is stashed although an awaiter is registered.
RunnerOnStop_NoAwaiterLookup(tk, t, v) ==
  /\ active_responses' =
       IF ~tk[t].final THEN Put(active_responses, t, v) ELSE active_responses
  /\ task' = ReturnToCaller([tk EXCEPT ![t] = End(@, "done")])
  /\ stack' = Front(stack)
  /\ fault' = NoFault
  /\ UNCHANGED active_tasks

\* RunnerOnStop without the test of task.final: every unawaited result is
\* stashed.
RunnerOnStop_IgnoreFinal(tk, t, v) ==
  IF t \in DOMAIN active_tasks
  THEN LET u == active_tasks[t] IN
       /\ active_tasks' = Remove(active_tasks, t)
       /\ task' = [tk EXCEPT ![t] = End(@, "done"), ![u] = Resume(@, t, v)]
       /\ stack' = [stack EXCEPT ![Len(stack)] = u]
       /\ fault' = NoFault
       /\ UNCHANGED active_responses
  ELSE /\ active_responses' = Put(active_responses, t, v)
       /\ task' = ReturnToCaller([tk EXCEPT ![t] = End(@, "done")])
       /\ stack' = Front(stack)
       /\ fault' = NoFault
       /\ UNCHANGED active_tasks

\* task_runner, except StopIteration branch: the coroutine of Task t has
\* returned v.
RunnerOnStop(tk, t, v) ==
  IF t \in DOMAIN active_tasks
  THEN LET u == active_tasks[t] IN
       /\ active_tasks' = Remove(active_tasks, t)
       /\ task' = [tk EXCEPT ![t] = End(@, "done"), ![u] = Resume(@, t, v)]
       /\ stack' = [stack EXCEPT ![Len(stack)] = u]
       /\ fault' = NoFault
       /\ UNCHANGED active_responses
  ELSE IF t \in DOMAIN active_responses
  THEN /\ task' = Propagate([tk EXCEPT ![t] = End(@, "done")])
       /\ stack' = <<>>
       /\ fault' = [e |-> "Exception:task.id in active_responses", id |-> t]
       /\ UNCHANGED <<active_tasks, active_responses>>
  ELSE /\ active_responses' =
            IF ~tk[t].final THEN Put(active_responses, t, v) ELSE active_responses
       /\ task' = ReturnToCaller([tk EXCEPT ![t] = End(@, "done")])
       /\ stack' = Front(stack)
       /\ fault' = NoFault
       /\ UNCHANGED active_tasks

\* The coroutine on top of the stack is executing and is not inside
\* hook_process_hashtable.
Running(t) ==
  /\ stack # <<>>
  /\ t = Top
  /\ task[t].st = "running"

Free(t) == Running(t) /\ task[t].ph = "none"

\* ------------------------------------------------------------------------
\* create_task
\* ------------------------------------------------------------------------
\* create_task(coroutine, final): called by the host side (the script's main
\* code, stack empty) or by the executing coroutine; allocates the Task and
\* enters task_runner(task, None).
create_task(final) ==
  /\ nextId <= MaxIds
  /\ stack = <<>> \/ Free(Top)
  /\ task' = Put(IF stack = <<>> THEN task ELSE [task EXCEPT ![Top].st = "calling"],
                 nextId, NewTask(final))
  /\ stack' = Append(stack, nextId)
  /\ nextId' = nextId + 1
  /\ fault' = NoFault
  /\ UNCHANGED <<active_tasks, active_responses, hooks>>

CreateTask ==
  \E final \in BOOLEAN :
    /\ create_task(final)
    /\ UNCHANGED nonsched

\* ------------------------------------------------------------------------
\* Steps of a coroutine
\* ------------------------------------------------------------------------
\* sleep(milliseconds): a FutureTimer, hook_timer, await future
sleep(tk, t, ms) ==
  /\ nextId <= MaxIds
  /\ hooks' = Put(hooks, nextId, [kind |-> "timer", ms |-> ms, sent |-> 0])
  /\ nextId' = nextId + 1
  /\ RunnerOnYield(tk, t, nextId)

\* a coroutine awaits a timer of its own
CoSleep ==
  \E t \in DOMAIN task :
    /\ Free(t)
    /\ sleep(task, t, RetrySleepMs)
    /\ UNCHANGED nonsched

\* Future.__await__ on a Task: the coroutine awaits Task a
CoAwaitTask ==
  \E t \in DOMAIN task, a \in DOMAIN task :
    /\ Free(t)
    /\ a # t
    /\ RunnerOnYield(task, t, a)
    /\ UNCHANGED <<nextId, hooks>>
    /\ UNCHANGED nonsched

\* the coroutine returns
CoReturn ==
  \E t \in DOMAIN task :
    /\ Free(t)
    /\ RunnerOnStop(task, t, ResultOf(t))
    /\ UNCHANGED <<nextId, hooks>>
    /\ UNCHANGED nonsched

\* CoRaise with the exception unwinding the registry of parked Tasks too
CoRaise_DropsPending ==
  \E t \in DOMAIN task :
    /\ Free(t)
    /\ task' = Propagate([task EXCEPT ![t] = End(@, "failed")])
    /\ stack' = <<>>
    /\ fault' = [e |-> "HttpError", id |-> t]
    /\ active_tasks' = <<>>
    /\ UNCHANGED <<nextId, active_responses, hooks>>
    /\ UNCHANGED nonsched

\* the coroutine raises (HttpError, or any other exception): task_runner
\* catches StopIteration only
CoRaise ==
  \E t \in DOMAIN task :
    /\ Free(t)
    /\ task' = Propagate([task EXCEPT ![t] = End(@, "failed")])
    /\ stack' = <<>>
    /\ fault' = [e |-> "HttpError", id |-> t]
    /\ UNCHANGED <<nextId, active_tasks, active_responses, hooks>>
    /\ UNCHANGED nonsched

\* hook_process_hashtable, entry: future = FutureProcess()
ProcBegin ==
  \E t \in DOMAIN task :
    /\ Free(t)
    /\ nextId <= MaxIds
    /\ task' = [task EXCEPT ![t].ph = "throttle", ![t].pf = nextId,
                            ![t].stdout = <<>>, ![t].stderr = <<>>,
                            ![t].return_code = -1]
    /\ nextId' = nextId + 1
    /\ fault' = NoFault
    /\ UNCHANGED <<active_tasks, active_responses, stack, hooks>>
    /\ UNCHANGED nonsched

\* hook_process_hashtable: available_file_descriptors() < 10, await sleep(10)
ProcThrottle ==
  \E t \in DOMAIN task, fds \in FdSamples :
    /\ Running(t)
    /\ task[t].ph = "throttle"
    /\ fds < FdThreshold
    /\ sleep([task EXCEPT ![t].fds = fds], t, FdPollMs)
    /\ UNCHANGED nonsched

\* ProcHook without the test of the sampled headroom
ProcHook_NoHeadroomTest ==
  \E t \in DOMAIN task, fds \in FdSamples :
    /\ Running(t)
    /\ task[t].ph = "throttle"
    /\ hooks' = Put(hooks, task[t].pf, [kind |-> "process", ms |-> 0, sent |-> 0])
    /\ RunnerOnYield([task EXCEPT ![t].ph = "hooked", ![t].fds = fds], t, task[t].pf)
    /\ UNCHANGED nextId
    /\ UNCHANGED nonsched

\* hook_process_hashtable: headroom is enough, weechat.hook_process_hashtable
\* is called and the coroutine awaits future
ProcHook ==
  \E t \in DOMAIN task, fds \in FdSamples :
    /\ Running(t)
    /\ task[t].ph = "throttle"
    /\ ~(fds < FdThreshold)
    /\ hooks' = Put(hooks, task[t].pf, [kind |-> "process", ms |-> 0, sent |-> 0])
    /\ RunnerOnYield([task EXCEPT ![t].ph = "hooked", ![t].fds = fds], t, task[t].pf)
    /\ UNCHANGED nextId
    /\ UNCHANGED nonsched

\* ProcMore awaiting the future again without writing the fragment
ProcMore_DropsFragment ==
  \E t \in DOMAIN task :
    /\ Running(t)
    /\ task[t].ph = "hooked"
    /\ task[t].got.rc = -1
    /\ RunnerOnYield([task EXCEPT ![t].return_code = -1], t, task[t].pf)
    /\ UNCHANGED <<nextId, hooks>>
    /\ UNCHANGED nonsched

\* hook_process_hashtable: a callback with return code -1 was received; the
\* chunk is written and the coroutine awaits future again
ProcMore ==
  \E t \in DOMAIN task :
    /\ Running(t)
    /\ task[t].ph = "hooked"
    /\ task[t].got.rc = -1
    /\ RunnerOnYield([task EXCEPT ![t].stdout = Append(@, OutOf(task[t].got)),
                                  ![t].stderr = Append(@, ErrOf(task[t].got)),
                                  ![t].return_code = -1],
                     t, task[t].pf)
    /\ UNCHANGED <<nextId, hooks>>
    /\ UNCHANGED nonsched

\* hook_process_hashtable: the final callback was received; the call returns
\* (command, return_code, out, err) to the coroutine
ProcDone ==
  \E t \in DOMAIN task :
    /\ Running(t)
    /\ task[t].ph = "hooked"
    /\ task[t].got.rc # -1
    /\ task' = [task EXCEPT ![t].stdout = Append(@, OutOf(task[t].got)),
                            ![t].stderr = Append(@, ErrOf(task[t].got)),
                            ![t].return_code = task[t].got.rc,
                            ![t].ph = "none"]
    /\ fault' = NoFault
    /\ UNCHANGED <<nextId, active_tasks, active_responses, stack, hooks>>
    /\ UNCHANGED nonsched

\* ------------------------------------------------------------------------
\* weechat_task_cb
\* ------------------------------------------------------------------------
\* weechat_task_cb resuming the Task of another pending entry than data's
weechat_task_cb_OtherEntry(data, args) ==
  /\ stack = <<>>
  /\ IF data \in DOMAIN active_tasks
     THEN LET key == CHOOSE k \in DOMAIN active_tasks :
                       \A k2 \in DOMAIN active_tasks : k <= k2
              t == active_tasks[key] IN
          /\ active_tasks' = Remove(active_tasks, key)
          /\ task' = [task EXCEPT ![t] = Resume(@, data, args)]
          /\ stack' = <<t>>
          /\ fault' = NoFault
     ELSE /\ fault' = [e |-> "KeyError", id |-> data]
          /\ UNCHANGED <<active_tasks, task, stack>>
  /\ UNCHANGED <<nextId, active_responses>>

\* weechat_task_cb reading active_tasks[data] without popping it
weechat_task_cb_NoPop(data, args) ==
  /\ stack = <<>>
  /\ IF data \in DOMAIN active_tasks
     THEN LET t == active_tasks[data] IN
          /\ task' = [task EXCEPT ![t] = Resume(@, data, args)]
          /\ stack' = <<t>>
          /\ fault' = NoFault
          /\ UNCHANGED active_tasks
     ELSE /\ fault' = [e |-> "KeyError", id |-> data]
          /\ UNCHANGED <<active_tasks, task, stack>>
  /\ UNCHANGED <<nextId, active_responses>>

\* weechat_task_cb discarding the uncollected result of the Task it resumes
weechat_task_cb_DropsStash(data, args) ==
  /\ stack = <<>>
  /\ IF data \in DOMAIN active_tasks
     THEN LET t == active_tasks[data] IN
          /\ active_tasks' = Remove(active_tasks, data)
          /\ task' = [task EXCEPT ![t] = Resume(@, data, args)]
          /\ stack' = <<t>>
          /\ fault' = NoFault
          /\ active_responses' = <<>>
     ELSE /\ fault' = [e |-> "KeyError", id |-> data]
          /\ UNCHANGED <<active_tasks, task, stack, active_responses>>
  /\ UNCHANGED nextId

\* weechat_task_cb(data, *args): the host's callback entry point.  The host
\* delivers callbacks one at a time, when no task_runner is on the stack.
weechat_task_cb(data, args) ==
  /\ stack = <<>>
  /\ IF data \in DOMAIN active_tasks
     THEN LET t == active_tasks[data] IN
          /\ active_tasks' = Remove(active_tasks, data)
          /\ task' = [task EXCEPT ![t] = Resume(@, data, args)]
          /\ stack' = <<t>>
          /\ fault' = NoFault
     ELSE /\ fault' = [e |-> "KeyError", id |-> data]
          /\ UNCHANGED <<active_tasks, task, stack>>
  /\ UNCHANGED <<nextId, active_responses>>

\* the host fires a timer hooked by sleep (max_calls = 1: it fires once)
HostTimer ==
  \E i \in DOMAIN hooks :
    /\ hooks[i].kind = "timer"
    /\ weechat_task_cb(i, TimerArgs(i))
    /\ hooks' = Remove(hooks, i)
    /\ UNCHANGED nonsched

\* the host delivers a fragment of a process's output (return code -1)
HostProcessChunk ==
  \E i \in DOMAIN hooks :
    /\ hooks[i].kind = "process"
    /\ hooks[i].sent < MaxChunks
    /\ weechat_task_cb(i, ProcessArgs(i, -1, hooks[i].sent + 1))
    /\ hooks' = [hooks EXCEPT ![i].sent = @ + 1]
    /\ UNCHANGED nonsched

\* the host delivers the final callback of a process
HostProcessEnd ==
  \E i \in DOMAIN hooks, rc \in {0, 1} :
    /\ hooks[i].kind = "process"
    /\ weechat_task_cb(i, ProcessArgs(i, rc, hooks[i].sent + 1))
    /\ hooks' = Remove(hooks, i)
    /\ UNCHANGED nonsched

\* the identities of host futures whose hook has delivered its last callback
Spent ==
  {i \in 1..(nextId - 1) :
     /\ i \notin DOMAIN task
     /\ i \notin DOMAIN hooks
     /\ \A t \in DOMAIN task : task[t].pf # i \/ task[t].ph = "none"}

\* HostStray with the host calling back under any identity that is a key of
\* active_tasks, a Task's identity included
HostStray_AnyPendingKey ==
  \E i \in DOMAIN active_tasks :
    /\ weechat_task_cb(i, TimerArgs(i))
    /\ UNCHANGED hooks
    /\ UNCHANGED nonsched

\* the host invokes the entry point with an identity whose hook has already
\* delivered its last callback
HostStray ==
  \E i \in Spent :
    /\ weechat_task_cb(i, TimerArgs(i))
    /\ UNCHANGED hooks
    /\ UNCHANGED nonsched

Next ==
  \/ CreateTask
  \/ CoSleep
  \/ CoAwaitTask
  \/ CoReturn
  \/ CoRaise
  \/ ProcBegin
  \/ ProcThrottle
  \/ ProcHook
  \/ ProcMore
  \/ ProcDone
  \/ HostTimer
  \/ HostProcessChunk
  \/ HostProcessEnd
  \/ HostStray

Spec == Init /\ [][Next]_vars

\* ------------------------------------------------------------------------
\* The scheduler with well-behaved coroutines and a fair host: SpecLive
\* ------------------------------------------------------------------------
\* No coroutine raises; a coroutine awaits a Task only if the Task is not
\* final, no other coroutine is parked on it, and its result, if it has
\* completed, has not been taken yet.  A coroutine that runs eventually
\* returns unless it suspends; the host eventually fires every timer and
\* eventually delivers the final callback of every process.
LiveCreateTask == nextId <= MaxLiveIds /\ CreateTask
LiveSleep == nextId <= MaxLiveIds /\ CoSleep
LiveProcBegin == nextId <= MaxLiveIds /\ ProcBegin
LiveProcThrottle == nextId <= MaxLiveIds /\ ProcThrottle

LiveAwaitTask ==
  \E t \in DOMAIN task, a \in DOMAIN task :
    /\ Free(t)
    /\ a # t
    /\ ~task[a].final
    /\ a \notin DOMAIN active_tasks
    /\ task[a].st = "done" => a \in DOMAIN active_responses
    /\ RunnerOnYield(task, t, a)
    /\ UNCHANGED <<nextId, hooks>>
    /\ UNCHANGED nonsched

NextLive ==
  \/ LiveCreateTask
  \/ LiveSleep
  \/ LiveAwaitTask
  \/ CoReturn
  \/ LiveProcBegin
  \/ LiveProcThrottle
  \/ ProcHook
  \/ ProcMore
  \/ ProcDone
  \/ HostTimer
  \/ HostProcessChunk
  \/ HostProcessEnd

Fairness ==
  /\ WF_vars(CoReturn)
  /\ WF_vars(ProcHook)
  /\ WF_vars(ProcMore)
  /\ WF_vars(ProcDone)
  /\ WF_vars(HostTimer)
  /\ WF_vars(HostProcessEnd)

SpecLive == Init /\ [][NextLive]_vars /\ Fairness

\* ------------------------------------------------------------------------
\* http_request, on one coroutine: SpecHttp
\* ------------------------------------------------------------------------
\* the request options a caller passes (SlackApi.get_request_options)
RequestOptions ==
  { [useragent |-> "wee_slack"] }

InitHttp ==
  /\ SchedulerIdle
  /\ FetchIdle
  /\ h_pc = "start"
  /\ \E n \in 0..MaxBudget, o \in RequestOptions, tm \in {30} :
       /\ h_first = Args("https://api.slack.com/api/m", o, tm, n)
       /\ h_args = h_first
  /\ h_chunks = 0
  /\ h_stdout = <<>>
  /\ h_stderr = <<>>
  /\ h_last = NoPlan
  /\ h_log = <<>>
  /\ h_result = NoResult
  /\ h_limits = 0

\* http_request, entry: options["header"] = "1", then the call of
\* hook_process_hashtable, which creates its future and samples the headroom
HttpEnter ==
  /\ h_pc = "start"
  /\ h_args' = [h_args EXCEPT !.options = Put(@, "header", "1")]
  /\ h_pc' = "sample"
  /\ h_last' = NoPlan
  /\ UNCHANGED <<h_first, h_chunks, h_stdout, h_stderr, h_log, h_result, h_limits>>
  /\ UNCHANGED nonhttp

\* hook_process_hashtable: available_file_descriptors() < 10, await sleep(10)
HttpThrottle ==
  /\ h_pc = "sample"
  /\ \E fds \in FdSamples : fds < FdThreshold
  /\ h_pc' = "fdsleep"
  /\ UNCHANGED <<h_first, h_args, h_chunks, h_stdout, h_stderr, h_last, h_log,
                 h_result, h_limits>>
  /\ UNCHANGED nonhttp

\* hook_process_hashtable: weechat.hook_process_hashtable(command, options,
\* timeout, ...); stdout and stderr start empty, return_code = -1
HttpSpawn ==
  /\ h_pc = "sample"
  /\ \E fds \in FdSamples : ~(fds < FdThreshold)
  /\ h_log' = Append(h_log, SpawnEvent(h_args))
  /\ h_chunks' = 0
  /\ h_stdout' = <<>>
  /\ h_stderr' = <<>>
  /\ h_pc' = "process"
  /\ UNCHANGED <<h_first, h_args, h_last, h_result, h_limits>>
  /\ UNCHANGED nonhttp

\* the host fires a timer hooked by sleep: the poll for file descriptors goes
\* on, or http_request calls itself
HttpTimer ==
  /\ \/ /\ h_pc = "fdsleep"
        /\ h_pc' = "sample"
        /\ UNCHANGED h_args
     \/ /\ h_pc = "backoff"
        /\ h_pc' = "start"
        /\ h_args' = RetryArgs(h_args)
     \/ /\ h_pc = "ratelimit"
        /\ h_pc' = "start"
        /\ h_args' = RateLimitArgs(h_args)
  /\ UNCHANGED <<h_first, h_chunks, h_stdout, h_stderr, h_last, h_log, h_result,
                 h_limits>>
  /\ UNCHANGED nonhttp

\* s is a prefix of q
IsPrefix(s, q) == Len(s) <= Len(q) /\ SubSeq(q, 1, Len(s)) = s

\* the host delivers a fragment (return code -1) of what the process writes:
\* at most one more line of stdout, and stderr text or none;
\* hook_process_hashtable writes both to its buffers
HttpChunk ==
  /\ h_pc = "process"
  /\ h_chunks < MaxChunks
  /\ \E p \in Plans, k \in 0..1, e \in 0..1 :
       /\ IsPrefix(h_stdout, p.out)
       /\ IsPrefix(h_stderr, p.err)
       /\ Len(h_stdout) + k <= Len(p.out)
       /\ Len(h_stderr) + e <= Len(p.err)
       /\ h_stdout' = h_stdout \o SubSeq(p.out, Len(h_stdout) + 1, Len(h_stdout) + k)
       /\ h_stderr' = h_stderr \o SubSeq(p.err, Len(h_stderr) + 1, Len(h_stderr) + e)
  /\ h_chunks' = h_chunks + 1
  /\ UNCHANGED <<h_pc, h_first, h_args, h_last, h_log, h_result, h_limits>>
  /\ UNCHANGED nonhttp

\* the host delivers the final callback, with the rest of what the process
\* wrote: hook_process_hashtable writes it and returns (command, return_code,
\* out, err), and http_request runs up to its next await or its end
HttpProcessEnd ==
  /\ h_pc = "process"
  /\ \E p \in Plans :
       /\ IsPrefix(h_stdout, p.out)
       /\ IsPrefix(h_stderr, p.err)
       /\ LET out == h_stdout \o SubSeq(p.out, Len(h_stdout) + 1, Len(p.out))
              err == h_stderr \o SubSeq(p.err, Len(h_stderr) + 1, Len(p.err))
              c == Classify(h_args, p.rc, out, err) IN
          /\ c.next = "ratelimit" => h_limits < MaxLimits
          /\ h_last' = [rc |-> p.rc, out |-> out, err |-> err]
          /\ h_pc' = c.next
          /\ h_result' = c.result
          /\ h_limits' = IF c.next = "ratelimit" THEN h_limits + 1 ELSE h_limits
          /\ h_log' = IF c.next \in {"backoff", "ratelimit"}
                      THEN h_log \o <<ResponseEvent(c.why), SleepEvent(c.ms, c.why)>>
                      ELSE Append(h_log, ResponseEvent(c.why))
  /\ h_chunks' = 0
  /\ h_stdout' = <<>>
  /\ h_stderr' = <<>>
  /\ UNCHANGED <<h_first, h_args>>
  /\ UNCHANGED nonhttp

NextHttp ==
  \/ HttpEnter
  \/ HttpThrottle
  \/ HttpSpawn
  \/ HttpTimer
  \/ HttpChunk
  \/ HttpProcessEnd

SpecHttp == InitHttp /\ [][NextHttp]_vars

\* ------------------------------------------------------------------------
\* Properties of http_request
\* ------------------------------------------------------------------------
Spawns == SelectSeq(h_log, LAMBDA x : x.e = "spawn")
Responses == SelectSeq(h_log, LAMBDA x : x.e = "response")
LastEvent == h_log[Len(h_log)]

\* every process of the request so far ended in a host-level failure
OnlyFailures == \A i \in 1..Len(h_log) : h_log[i].e = "response" => h_log[i].why = "failure"

\* every process of the request so far was answered 429 with a Retry-After
OnlyRateLimits == \A i \in 1..Len(h_log) : h_log[i].e = "response" => h_log[i].why = "ratelimit"

\* http_request holds the outcome of a process that succeeded at host level
\* and whose output has a status line and the end of the header block
GotResponse ==
  /\ h_last # NoPlan
  /\ h_last.rc = 0
  /\ h_last.err = <<>>
  /\ HeadersEndIndex(h_last.out) > 1
  /\ h_last.out[1].t = "status"

GotStatus == h_last.out[1].code
GotHeaders == SubSeq(h_last.out, 2, HeadersEndIndex(h_last.out) - 1)
GotBody == SubSeq(h_last.out, HeadersEndIndex(h_last.out) + 1, Len(h_last.out))

\* C5: while every attempt is a host-level failure, a request with budget N
\* spawns, classifies and sleeps 1000 ms in turn, never spawns more than
\* N + 1 times, and at the (N + 1)-th failure, and not before, raises
\* HttpError with HTTP status 0 and the failure's return code and error text,
\* with no sleep after the last spawn.
C5_RetriesThenTransportFault ==
  LET N == h_first.max_retries IN
  OnlyFailures =>
    /\ \A i \in 1..Len(h_log) :
         /\ i % 3 = 1 => (h_log[i].e = "spawn" /\ h_log[i].args.max_retries = N - (i \div 3))
         /\ i % 3 = 2 => h_log[i].e = "response"
         /\ i % 3 = 0 => (h_log[i].e = "sleep" /\ h_log[i].ms = 1000)
    /\ Len(Spawns) <= N + 1
    /\ Len(Responses) = N + 1 =>
         /\ h_pc = "raised"
         /\ h_result = HttpError(h_first.url, h_last.rc, 0, h_last.err)
         /\ LastEvent.e = "response"
    /\ h_pc \in {"raised", "returned"} => Len(Spawns) = N + 1

\* C5 witness: a request with budget MaxBudget has failed after
\* MaxBudget + 1 spawns, all host-level failures.
C5_Witness ==
  /\ h_pc = "raised"
  /\ OnlyFailures
  /\ h_first.max_retries = MaxBudget
  /\ Len(Spawns) = MaxBudget + 1
  /\ h_result.http_status = 0

\* C6: as long as every response is a 429 with a Retry-After value, every
\* spawn of the request is issued with the url, options, timeout and retry
\* budget of the first one, the budget N the request was called with.
C6_RateLimitKeepsBudget ==
  OnlyRateLimits =>
    \A i \in 1..Len(h_log) :
      h_log[i].e = "spawn" =>
        /\ h_log[i].args = h_log[1].args
        /\ h_log[i].args.max_retries = h_first.max_retries

RetryAfterAt(headers, i) ==
  /\ headers[i].t = "header"
  /\ Lower(headers[i].name) = "retry-after"
  /\ headers[i].int
  /\ \A j \in 1..(i - 1) :
       headers[j].t = "header" /\ Lower(headers[j].name) # "retry-after"

\* every line of the header block has a colon and none is a Retry-After
NoRetryAfter(headers) ==
  \A i \in 1..Len(headers) :
    headers[i].t = "header" /\ Lower(headers[i].name) # "retry-after"

C8_StatusFaultNotRetried ==
  (GotResponse /\ GotStatus # 429) =>
    IF GotStatus >= 400
    THEN /\ h_pc = "raised"
         /\ h_result = HttpError(h_first.url, 0, GotStatus, GotBody)
         /\ LastEvent.e = "response"
         /\ ~ENABLED NextHttp
    ELSE /\ h_pc = "returned"
         /\ h_result = Body(GotBody)

\* C8 witness: status 404 has raised HttpError although budget is left.
C8_Witness ==
  /\ GotResponse
  /\ GotStatus = 404
  /\ h_args.max_retries > 0
  /\ h_pc = "raised"
  /\ h_result.http_status = 404

\* ------------------------------------------------------------------------
\* fetch_list and _fetch_list: SpecFetch
\* ------------------------------------------------------------------------
\* the params a caller passes: none (the default {}), or a page size
CallerParams == { <<>>, [limit |-> 100] }

InitFetch ==
  /\ SchedulerIdle
  /\ HttpIdle
  /\ f_pc = "call"
  /\ f_fn = ""
  /\ f_server \in Servers
  /\ f_pages \in -1..MaxPages
  /\ f_params \in CallerParams
  /\ f_default = <<>>
  /\ f_how = ""
  /\ f_calls = <<>>
  /\ f_result = Fetched("none", <<>>, <<>>, <<>>)

\* the mapping a call binds to params: the caller's, or the default {} of the
\* signature, one object made when the function is defined
Passed(how) == IF how = "own" THEN f_params ELSE f_default

\* the two ways of calling, and the position after a call
Hows == {"own", "default"}
After(pc) == IF pc = "call" THEN "done" ELSE "again"

\* await api.fetch_list(method, list_key, params, pages), src/slack.py:
\* the first call, or a second one with the same arguments
FetchList ==
  /\ f_pc \in {"call", "done"}
  /\ f_fn \in {"", "fetch_list"}
  /\ \E how \in Hows :
       LET r == fetch_list(f_server, Passed(how), f_pages) IN
       /\ f_result' = r
       /\ f_calls' = r.calls
       /\ f_params' = IF how = "own" THEN r.params ELSE f_params
       /\ f_default' = IF how = "default" THEN r.params ELSE f_default
       /\ f_how' = how
  /\ f_fn' = "fetch_list"
  /\ f_pc' = After(f_pc)
  /\ UNCHANGED <<f_server, f_pages>>
  /\ UNCHANGED nonfetch

\* await api._fetch_list(method, list_key, params, pages),
\* src/slack/slack_api.py: the first call, or a second one with the same
\* arguments
FetchListApi ==
  /\ f_pc \in {"call", "done"}
  /\ f_fn \in {"", "_fetch_list"}
  /\ \E how \in Hows :
       LET r == fetch_list_api(f_server, Passed(how), f_pages) IN
       /\ f_result' = r
       /\ f_calls' = r.calls
       /\ f_params' = IF how = "own" THEN r.params ELSE f_params
       /\ f_default' = IF how = "default" THEN r.params ELSE f_default
       /\ f_how' = how
  /\ f_fn' = "_fetch_list"
  /\ f_pc' = After(f_pc)
  /\ UNCHANGED <<f_server, f_pages>>
  /\ UNCHANGED nonfetch

NextFetch ==
  \/ FetchList
  \/ FetchListApi

SpecFetch == InitFetch /\ [][NextFetch]_vars

\* ------------------------------------------------------------------------
\* Properties of the paginated fetch
\* ------------------------------------------------------------------------
\* the index of the first page that has no next_cursor or is not ok
FirstLast == CHOOSE k \in 1..Len(f_server) :
               /\ ~Continues(f_server[k])
               /\ \A i \in 1..(k - 1) : Continues(f_server[i])

Min(a, b) == IF a <= b THEN a ELSE b

\* the list fields of pages 1..n, one after the other
RECURSIVE ListsUpTo(_)
ListsUpTo(n) == IF n = 0 THEN <<>> ELSE ListsUpTo(n - 1) \o f_server[n][list_key]

\* every page up to the k-th is ok and carries the list field
AllOkWithList(k) ==
  \A i \in 1..k : f_server[i].ok /\ list_key \in DOMAIN f_server[i]

\* C9: with pages <= 0, over ok pages that carry the list field and a cursor,
\* all but the last, the result is the first page's mapping with the list
\* field replaced by the lists of all pages in page order, each element once;
\* every other field, response_metadata and its cursor among them, is the
\* first page's.
C9_AllPagesConcatenated ==
  (f_pc = "done" /\ f_pages <= 0 /\ AllOkWithList(FirstLast)) =>
    /\ f_result.kind = "value"
    /\ f_result.response = [f_server[1] EXCEPT ![list_key] = ListsUpTo(FirstLast)]
    /\ DOMAIN f_result.response = DOMAIN f_server[1]
    /\ \A key \in DOMAIN f_server[1] \ {list_key} :
         f_result.response[key] = f_server[1][key]
    /\ \A i \in 1..FirstLast : \A j \in 1..Len(f_server[i][list_key]) :
         Cardinality({x \in 1..Len(f_result.response[list_key]) :
                        f_result.response[list_key][x] = <<i, j>>}) = 1

\* C9 witness: three ok pages were fetched with pages <= 0 and joined.
C9_Witness ==
  /\ f_pc = "done"
  /\ f_pages <= 0
  /\ FirstLast = 3
  /\ AllOkWithList(3)
  /\ Len(f_result.response[list_key]) >= 4

\* C10: with k the index of the first page without next_cursor or not ok,
\* pages = N >= 1 makes exactly min(N, k) calls, and pages = 1 returns the
\* first page as it is; pages <= 0 makes exactly k calls.
C10_CallsMade ==
  f_pc = "done" =>
    /\ f_pages >= 1 => Len(f_calls) = Min(f_pages, FirstLast)
    /\ f_pages = 1 => (f_result.kind = "value" /\ f_result.response = f_server[1])
    /\ f_pages <= 0 => Len(f_calls) = FirstLast
    /\ \A i \in 2..Len(f_calls) : Fetch(f_server, f_calls[i]) = f_server[i]

\* C10 witness: pages = 1 returned the first page after one call although
\* the page has a cursor and is ok.
C10_Witness ==
  /\ f_pc = "done"
  /\ f_pages = 1
  /\ Len(f_server) > 1
  /\ Continues(f_server[1])
  /\ Len(f_calls) = 1
  /\ f_result.response = f_server[1]

\* ------------------------------------------------------------------------
\* Properties of the scheduler
\* ------------------------------------------------------------------------
\* the identities that are host futures (timers, processes), not Tasks
IsHostFuture(i) == i \notin DOMAIN task

\* a step in which the host invokes weechat_task_cb: no task_runner is on the
\* stack and no Task is created
HostCallbackStep == stack = <<>> /\ nextId' = nextId

\* C1: in every reachable state no identity is a key of both active_tasks
\* (pending-by-future-id) and active_responses (completed-but-uncollected).
C1_RegistriesDisjoint ==
  DOMAIN active_tasks \cap DOMAIN active_responses = {}

\* C1 witness: a Task's result is stashed while another Task is parked on a
\* Task identity, so both registries hold Task identities at once.
C1_Witness ==
  /\ DOMAIN active_responses # {}
  /\ \E i \in DOMAIN active_tasks : ~IsHostFuture(i)

\* C2: a Task parked on a host future j is touched only by the host callback
\* whose identity is j: that step removes exactly the entry j, sends the
\* callback's payload to that Task and to no other; every other step (other
\* callbacks and all the steps of the task_runner they start) leaves the
\* Task's entry and the Task itself unchanged.
C2_PayloadToMatchingTaskOnly ==
  [][\A j \in DOMAIN active_tasks :
       IsHostFuture(j) =>
         LET u == active_tasks[j] IN
         \/ /\ j \in DOMAIN active_tasks'
            /\ active_tasks'[j] = u
            /\ task'[u] = task[u]
         \/ /\ HostCallbackStep
            /\ active_tasks' = Remove(active_tasks, j)
            /\ stack' = <<u>>
            /\ task'[u].st = "running"
            /\ task'[u].src = j
            /\ task'[u].got.id = j
            /\ task'[u].got.k \in {"timer", "process"}
            /\ \A w \in DOMAIN task : w # u => task'[w] = task[w]]_vars

\* C2 witness: a Task has just received the payload of its host future's
\* callback while another Task stays parked on a different host future.
C2_Witness ==
  \E t \in DOMAIN task, j \in DOMAIN active_tasks :
    /\ stack = <<t>>
    /\ task[t].got.k = "timer"
    /\ task[t].src = task[t].got.id
    /\ IsHostFuture(j)
    /\ j # task[t].src
    /\ active_tasks[j] # t

\* C3: a host callback either finds the entry of its identity, removes it and
\* then runs the Task that was parked there, or finds no entry and is a fault
\* (KeyError) that resumes nothing and leaves both registries unchanged.
C3_PopBeforeResumeOrFault ==
  [][HostCallbackStep =>
       \/ /\ fault'.e = "KeyError"
          /\ fault'.id \notin DOMAIN active_tasks
          /\ UNCHANGED <<active_tasks, active_responses, task, stack>>
       \/ \E i \in DOMAIN active_tasks :
            /\ active_tasks' = Remove(active_tasks, i)
            /\ i \notin DOMAIN active_tasks'
            /\ stack' = <<active_tasks[i]>>
            /\ task'[active_tasks[i]].st = "running"
            /\ task'[active_tasks[i]].src = i
            /\ active_responses' = active_responses
            /\ fault' = NoFault]_vars

\* C3 witness: a second callback for an identity whose Task was already
\* resumed has raised KeyError.
C3_Witness ==
  /\ fault.e = "KeyError"
  /\ fault.id \in Spent
  /\ stack = <<>>

\* C4: a Task created with final = true is never a key of active_responses,
\* and the step in which its coroutine completes with no Task parked on its
\* identity leaves its identity in neither registry.
C4_FinalLeavesNoResidue ==
  /\ [](\A t \in DOMAIN active_responses : ~task[t].final)
  /\ [][\A t \in DOMAIN task :
          (/\ task[t].final
           /\ task[t].st = "running"
           /\ task'[t].st = "done"
           /\ t \notin DOMAIN active_tasks)
          => (t \notin DOMAIN active_tasks' /\ t \notin DOMAIN active_responses')]_vars

\* C4 witness: a final Task, the only Task there is, has completed.
C4_Witness ==
  \E t \in DOMAIN task :
    /\ DOMAIN task = {t}
    /\ task[t].final
    /\ task[t].st = "done"
    /\ stack = <<>>

\* C11: when the coroutine of a Task raises while another Task is parked in
\* active_tasks on the failing Task's identity, the parked Task is taken out
\* of active_tasks and resumed with the fault in that step.  The failing Task
\* has suspended before: it runs on a value sent to it for a future.
C11_FaultReachesParkedAwaiter ==
  [][\A t \in DOMAIN task :
       (/\ t \in DOMAIN active_tasks
        /\ task[t].st = "running"
        /\ task[t].src # 0
        /\ task'[t].st = "failed")
       => (/\ t \notin DOMAIN active_tasks'
           /\ task'[active_tasks[t]].st # "parked")]_vars

\* the errors that abort a task_runner invocation: an exception raised by the
\* coroutine, or one of task_runner's own two exceptions
Aborts ==
  {"HttpError", "Exception:future.id in active_tasks",
   "Exception:task.id in active_responses"}

\* a step in which an error leaves task_runner and reaches the host
AbortStep == stack # <<>> /\ stack' = <<>> /\ fault'.e \in Aborts

\* C12: a step in which an error aborts task_runner leaves both registries
\* and every Task parked in active_tasks as they were; and the host callback
\* that follows an abort still removes exactly the entry of its identity and
\* sends its payload to the Task parked there, every other entry and parked
\* Task staying unchanged.
C12_AbortLeavesOthersIntact ==
  [][/\ AbortStep =>
          /\ active_tasks' = active_tasks
          /\ active_responses' = active_responses
          /\ \A j \in DOMAIN active_tasks :
               task'[active_tasks[j]] = task[active_tasks[j]]
     /\ (HostCallbackStep /\ fault.e \in Aborts) =>
          \A j \in DOMAIN active_tasks :
            IsHostFuture(j) =>
              LET u == active_tasks[j] IN
              \/ /\ j \in DOMAIN active_tasks'
                 /\ active_tasks'[j] = u
                 /\ task'[u] = task[u]
              \/ /\ active_tasks' = Remove(active_tasks, j)
                 /\ stack' = <<u>>
                 /\ task'[u].st = "running"
                 /\ task'[u].src = j
                 /\ task'[u].got.id = j]_vars

\* C12 witness: right after an abort a Task is running on the payload of its
\* own host callback, while the failed Task and a third, still parked Task
\* exist.
C12_Witness ==
  \E t \in DOMAIN task, x \in DOMAIN task, j \in DOMAIN active_tasks :
    /\ task[x].st = "failed"
    /\ stack = <<t>>
    /\ t # x
    /\ task[t].src # 0
    /\ IsHostFuture(task[t].src)
    /\ task[t].got.id = task[t].src
    /\ active_tasks[j] \notin {t, x}

\* C13: in hook_process_hashtable every wait for a further fragment, after a
\* callback with return code -1, parks on a future whose identity differs
\* from the one that delivered the callback, so that no future identity is
\* registered in active_tasks twice.
C13_FreshFuturePerFragment ==
  [][\A t \in DOMAIN task :
       (/\ task[t].st = "running"
        /\ task[t].ph = "hooked"
        /\ task[t].got.rc = -1
        /\ task'[t].st = "parked")
       => (/\ task'[t].at # task[t].src
           /\ task'[t].at \notin 1..(nextId - 1))]_vars

\* C14: no step changes the value of an entry that stays in a registry; a
\* coroutine that suspends on an identity which is a key of active_tasks
\* makes task_runner raise, with active_tasks unchanged; a Task that completes
\* while its identity is a key of active_responses makes task_runner raise,
\* with active_responses unchanged.
C14_NoSilentOverwrite ==
  [][/\ \A f \in DOMAIN active_tasks \cap DOMAIN active_tasks' :
          active_tasks'[f] = active_tasks[f]
     /\ \A a \in DOMAIN active_responses \cap DOMAIN active_responses' :
          active_responses'[a] = active_responses[a]
     /\ \A t \in DOMAIN task :
          (/\ task[t].st = "running"
           /\ task'[t].st = "parked"
           /\ task'[t].at \in DOMAIN active_tasks)
          => (/\ fault' = [e |-> "Exception:future.id in active_tasks",
                           id |-> task'[t].at]
              /\ active_tasks' = active_tasks
              /\ active_tasks[task'[t].at] # t
              /\ stack' = <<>>)
     /\ \A t \in DOMAIN task :
          (/\ task[t].st = "running"
           /\ task'[t].st = "done"
           /\ t \in DOMAIN active_responses)
          => (/\ fault' = [e |-> "Exception:task.id in active_responses", id |-> t]
              /\ active_responses' = active_responses)]_vars

\* C14 witness: a second coroutine has awaited a Task that already had a
\* parked awaiter; task_runner raised and the first awaiter keeps the entry.
C14_Witness ==
  \E t \in DOMAIN task :
    /\ fault.e = "Exception:future.id in active_tasks"
    /\ fault.id \in DOMAIN active_tasks
    /\ ~IsHostFuture(fault.id)
    /\ task[t].st = "parked"
    /\ task[t].at = fault.id
    /\ active_tasks[fault.id] # t
    /\ task[active_tasks[fault.id]].st = "parked"

\* the result of Task a is sent into the coroutine of Task p in this step
Delivery(p, a) ==
  /\ task'[p].st = "running"
  /\ task'[p].src = a
  /\ task'[p].got = ResultOf(a)
  /\ task[p].src # a

\* C15: the result of a non-final Task a reaches an awaiting Task p in one of
\* two ways, and in no other.  If a completed first, its result is stashed in
\* active_responses and the step in which the entry is removed is p's await:
\* p gets the stashed value and goes on running in the same task_runner
\* invocation.  If p parked first, the step in which a completes pops p and
\* sends it the value, p taking a's place in the same task_runner invocation;
\* no host callback is involved.  After either step a's identity is in
\* neither registry.
C15_ResultOnceInBothOrders ==
  [][\A a \in DOMAIN task :
       ~task[a].final =>
         /\ (a \in DOMAIN active_responses /\ a \notin DOMAIN active_responses') =>
              \E p \in DOMAIN task :
                /\ Running(p)
                /\ Delivery(p, a)
                /\ task'[p].got = active_responses[a]
                /\ stack' = stack
                /\ a \notin DOMAIN active_tasks'
         /\ (a \in DOMAIN active_tasks /\ Running(a) /\ task'[a].st = "done") =>
              LET p == active_tasks[a] IN
                /\ Delivery(p, a)
                /\ stack' = [stack EXCEPT ![Len(stack)] = p]
                /\ a \notin DOMAIN active_tasks'
                /\ a \notin DOMAIN active_responses'
         /\ \A p \in DOMAIN task :
              Delivery(p, a) =>
                \/ /\ a \in DOMAIN active_responses
                   /\ a \notin DOMAIN active_responses'
                   /\ Running(p)
                \/ /\ a \in DOMAIN active_tasks
                   /\ active_tasks[a] = p
                   /\ a \notin DOMAIN active_tasks'
                   /\ Running(a)]_vars

\* C15 witness: a Task is running on the result of a completed non-final
\* Task, whose identity is in neither registry.
C15_Witness ==
  \E p \in DOMAIN task, a \in DOMAIN task :
    /\ ~task[a].final
    /\ task[a].st = "done"
    /\ task[p].st = "running"
    /\ task[p].src = a
    /\ task[p].got = ResultOf(a)
    /\ stack = <<p>>
    /\ a \notin DOMAIN active_tasks
    /\ a \notin DOMAIN active_responses

\* the fragments 1..n of the process of future f, as written to stdout and
\* to stderr
OutsOf(f, n) == [k \in 1..n |-> <<"out", f, k>>]
ErrsOf(f, n) == [k \in 1..n |-> <<"err", f, k>>]

\* a Task whose call of hook_process_hashtable has returned
Returned(t) == task[t].ph = "none" /\ task[t].pf # 0

\* C16: whatever the number of hook_process_hashtable calls in flight and the
\* order of their callbacks, a call that has returned has received the final
\* callback (return code other than -1) of its own process, which has no
\* callback left, and returns that return code with stdout and stderr holding
\* the fragments of its own process only, all of them, in delivery order; a
\* call still waiting holds the fragments delivered so far for its own
\* process.
C16_OwnOutputOnly ==
  \A t \in DOMAIN task :
    /\ Returned(t) =>
         /\ task[t].return_code # -1
         /\ task[t].pf \notin DOMAIN hooks
         /\ Len(task[t].stdout) >= 1
         /\ task[t].stdout = OutsOf(task[t].pf, Len(task[t].stdout))
         /\ task[t].stderr = ErrsOf(task[t].pf, Len(task[t].stdout))
         /\ \A u \in DOMAIN task : (u # t /\ task[u].pf # 0) => task[u].pf # task[t].pf
    /\ (task[t].ph = "hooked" /\ task[t].st = "parked") =>
         /\ task[t].pf \in DOMAIN hooks
         /\ task[t].return_code = -1
         /\ task[t].stdout = OutsOf(task[t].pf, hooks[task[t].pf].sent)
         /\ task[t].stderr = ErrsOf(task[t].pf, hooks[task[t].pf].sent)

\* C16 witness: two calls were in flight at once; one has returned with two
\* fragments of its own, the other has received one fragment and waits.
C16_Witness ==
  \E t \in DOMAIN task, u \in DOMAIN task :
    /\ t # u
    /\ Returned(t)
    /\ Len(task[t].stdout) = 2
    /\ task[u].ph = "hooked"
    /\ task[u].st = "parked"
    /\ Len(task[u].stdout) = 1
    /\ task[u].pf < task[t].pf

\* the process hooks the host holds
ProcessHooks(h) == {i \in DOMAIN h : h[i].kind = "process"}

\* a step in which the coroutine of Task t, inside hook_process_hashtable and
\* before its process is started, samples the headroom
SampleStep(t) ==
  /\ Running(t)
  /\ task[t].ph = "throttle"
  /\ task'[t] # task[t]

\* C17: the host holds a process hook only for a call whose last sample of
\* the headroom was >= 10, and a process is started only in a step that
\* samples >= 10; a step that samples < 10 starts no process, hooks a timer
\* of 10 ms, parks the Task on it under a new identity and ends that
\* task_runner invocation, so that control is back with the caller, or, for
\* the outermost invocation, with the host, which is then free to deliver
\* any callback.
C17_SpawnOnlyWithHeadroom ==
  /\ [](\A i \in ProcessHooks(hooks) :
          \E t \in DOMAIN task : task[t].pf = i /\ task[t].fds >= FdThreshold)
  /\ [][\A t \in DOMAIN task :
          /\ (ProcessHooks(hooks') # ProcessHooks(hooks) /\ Running(t)) =>
               /\ SampleStep(t)
               /\ task'[t].fds >= FdThreshold
               /\ ProcessHooks(hooks') = ProcessHooks(hooks) \cup {task[t].pf}
          /\ (SampleStep(t) /\ task'[t].fds < FdThreshold) =>
               /\ ProcessHooks(hooks') = ProcessHooks(hooks)
               /\ hooks' = Put(hooks, nextId, [kind |-> "timer", ms |-> FdPollMs, sent |-> 0])
               /\ nextId \notin DOMAIN hooks
               /\ task'[t].st = "parked"
               /\ task'[t].at = nextId
               /\ task'[t].ph = "throttle"
               /\ active_tasks' = Put(active_tasks, nextId, t)
               /\ stack' = Front(stack)
               /\ (Len(stack) = 1 => stack' = <<>>)]_vars

\* C17 witness: a call sampled a headroom below 10 and waits on its 10 ms
\* timer with no process started, and during the wait the host had another
\* Task created, which ran to completion.
C17_Witness ==
  \E t \in DOMAIN task, u \in DOMAIN task :
    /\ task[t].ph = "throttle"
    /\ task[t].st = "parked"
    /\ task[t].fds < FdThreshold
    /\ task[t].at \in DOMAIN hooks
    /\ hooks[task[t].at].ms = FdPollMs
    /\ task[t].pf \notin DOMAIN hooks
    /\ u > task[t].at
    /\ task[u].st = "done"
    /\ stack = <<>>

\* every created Task has completed and active_tasks is empty
Quiescent ==
  /\ \A t \in DOMAIN task : task[t].st = "done"
  /\ active_tasks = <<>>

\* the Task that Task t is parked on, n awaits down the chain (0: none)
RECURSIVE AwaitedBy(_, _)
AwaitedBy(t, n) ==
  IF n = 0 THEN t
  ELSE LET u == AwaitedBy(t, n - 1) IN
       IF u \in DOMAIN task /\ task[u].st = "parked" /\ task[u].at \in DOMAIN task
       THEN task[u].at ELSE 0

\* some Task awaits, through a chain of awaits, itself
AwaitCycle ==
  \E t \in DOMAIN task, n \in 1..MaxLiveIds : AwaitedBy(t, n) = t

\* C18 as stated: with no error raised, no final Task awaited, no Task
\* awaited twice and a fair host, eventually every created Task has completed
\* and active_tasks is empty, for good.
C18_AllTasksComplete == <>[]Quiescent

\* C18, amended: the same, for behaviours in which no Task ever awaits itself
\* through a chain of awaits.
C18_AllCompleteUnlessCycle == ([]~AwaitCycle) => <>[]Quiescent

\* C18 witness: a Task that slept and a Task that awaited it have both
\* completed, and active_tasks is empty.
C18_Witness ==
  /\ Quiescent
  /\ hooks = <<>>
  /\ stack = <<>>
  /\ nextId = MaxLiveIds + 1
  /\ Cardinality(DOMAIN task) = 2
  /\ active_responses # <<>>

\* a final Task that has completed and whose result is gone
FinalDone(a) == task[a].final /\ task[a].st = "done"

\* C19: a coroutine that awaits a final Task after it completed is
\* registered in active_tasks under the Task's identity, and from then on no
\* step, host callbacks included, removes the entry or resumes the coroutine.
C19_AwaitOfCompletedFinalNeverResumes ==
  [][\A a \in DOMAIN task :
       /\ \A t \in DOMAIN task :
            (/\ FinalDone(a)
             /\ a \notin DOMAIN active_tasks
             /\ task[t].st = "running"
             /\ task'[t].st = "parked"
             /\ task'[t].at = a)
            => (/\ active_tasks' = Put(active_tasks, a, t)
                /\ a \notin DOMAIN active_responses)
       /\ (FinalDone(a) /\ a \in DOMAIN active_tasks) =>
            /\ a \in DOMAIN active_tasks'
            /\ active_tasks'[a] = active_tasks[a]
            /\ task'[active_tasks[a]] = task[active_tasks[a]]
            /\ task[active_tasks[a]].st = "parked"
            /\ task'[a] = task[a]]_vars

\* C19 witness: a coroutine is parked on a completed final Task while every
\* host hook has delivered its last callback and a stray callback was made.
C19_Witness ==
  \E a \in DOMAIN active_tasks :
    /\ ~IsHostFuture(a)
    /\ FinalDone(a)
    /\ task[active_tasks[a]].st = "parked"
    /\ hooks = <<>>
    /\ stack = <<>>
    /\ fault.e = "KeyError"

\* C20: an entry of active_responses, with its value, stays in every step but
\* the one in which a running coroutine suspends on that identity and is sent
\* the value; so the result of a non-final Task that nothing awaits stays
\* through every host callback, and every completed non-final Task that was
\* not awaited has its result there.
C20_StashLeavesOnlyByAwait ==
  [][\A a \in DOMAIN active_responses :
       \/ /\ a \in DOMAIN active_responses'
          /\ active_responses'[a] = active_responses[a]
       \/ /\ ~HostCallbackStep
          /\ \E p \in DOMAIN task :
               /\ Running(p)
               /\ task'[p].st = "running"
               /\ task'[p].src = a
               /\ task'[p].got = active_responses[a]]_vars

\* C20 witness: the result of a completed non-final Task is in
\* active_responses when a Task created later has completed too, every hook
\* has delivered its last callback and nothing is left to run.
C20_Witness ==
  \E a \in DOMAIN active_responses, u \in DOMAIN task :
    /\ ~task[a].final
    /\ task[a].st = "done"
    /\ u > a
    /\ task[u].st = "done"
    /\ Spent # {}
    /\ hooks = <<>>
    /\ stack = <<>>
    /\ active_tasks = <<>>

\* ------------------------------------------------------------------------
\* Properties of the paginated fetch: what later pages contribute
\* ------------------------------------------------------------------------
\* the page the n-th request of the fetch was answered with
PageFetched(n) == Fetch(f_server, f_calls[n])

\* the last page requested is not ok, and it and every page before it carry
\* the list field
LaterPageFailed ==
  /\ Len(f_calls) >= 2
  /\ ~PageFetched(Len(f_calls)).ok
  /\ \A n \in 1..Len(f_calls) : list_key \in DOMAIN PageFetched(n)

\* C21: the mapping fetch_list and _fetch_list return has the fields of the
\* first page fetched, and "ok" and every field but the list field hold the
\* first page's values; when a later page is not ok but carries the list
\* field, the call still returns a mapping, with ok = true, in which the
\* later page's "ok" does not show.
C21_OkIsTheFirstPages ==
  /\ f_result.kind = "value" =>
       /\ DOMAIN f_result.response = DOMAIN PageFetched(1)
       /\ \A key \in DOMAIN PageFetched(1) \ {list_key} :
            f_result.response[key] = PageFetched(1)[key]
  /\ (f_result.kind # "none" /\ LaterPageFailed) =>
       /\ f_result.kind = "value"
       /\ f_result.response.ok = TRUE
       /\ PageFetched(1).ok = TRUE

\* C21 witness: the first page was ok with a cursor, the second one is not
\* ok and carries the list field, and the result returned is ok and ends
\* with the second page's elements.
C21_Witness ==
  /\ f_result.kind = "value"
  /\ Len(f_calls) = 2
  /\ LaterPageFailed
  /\ f_result.response.ok
  /\ f_result.response[list_key] =
       PageFetched(1)[list_key] \o PageFetched(2)[list_key]

\* ------------------------------------------------------------------------
\* Properties of the paginated fetch: the caller's params
\* ------------------------------------------------------------------------
\* a step in which _fetch_list is called and returns or raises
ApiCallStep == f_fn' = "_fetch_list" /\ f_pc' # f_pc

\* C22: _fetch_list leaves the mapping it was passed as it is, be it the
\* caller's or the shared default: the first request carries the params
\* passed, the request for page i + 1 carries these plus cursor = the
\* next_cursor of page i, and after the call both mappings are what they
\* were; so every call, a second one with the same params included, issues
\* its first request without a cursor.
C22_ParamsNeverModified ==
  [][ApiCallStep =>
       /\ f_params' = f_params
       /\ f_default' = f_default
       /\ f_calls'[1] = (IF f_how' = "own" THEN f_params ELSE f_default)
       /\ "cursor" \notin DOMAIN f_calls'[1]
       /\ \A i \in 1..(Len(f_calls') - 1) :
            f_calls'[i + 1] =
              Put(f_calls'[1], "cursor",
                  Fetch(f_server, f_calls'[i])["response_metadata"]["next_cursor"])
     ]_vars

\* C22 witness: a second call of _fetch_list with the default params has
\* fetched more than one page, its first request carrying no cursor, and the
\* default mapping is still empty.
C22_Witness ==
  /\ f_pc = "again"
  /\ f_fn = "_fetch_list"
  /\ f_how = "default"
  /\ Len(f_calls) >= 2
  /\ f_calls[1] = <<>>
  /\ "cursor" \in DOMAIN f_calls[2]
  /\ f_default = <<>>

====
